---- MODULE Spec2Model ----
(***************************************************************************)
(* Model of .github/vpc_destroy.py: the teardown of one virtual network    *)
(* (VPC) and of everything attached to it.                                 *)
(*                                                                         *)
(* The script is one sequential process.  Its state is its position (pc),  *)
(* its local variables, what it printed and the provider calls it issued;  *)
(* the provider (the EC2 control plane the script reaches through boto3)   *)
(* is the record aws.  Each action is one statement block of the script,   *)
(* with every provider call the block makes.                               *)
(***************************************************************************)
EXTENDS Integers, Sequences, FiniteSets, TLC

VARIABLES
    aws,            \* the provider's state: credentials and resource lists
    start,          \* the provider's state when this run started
    services,       \* args.services, a string as a sequence of glyphs
    pc,             \* the script's position
    svc,            \* destroy_services: index of the service being handled
    calls,          \* the mutating provider calls issued in this run, in order
    route_tables,   \* delete_vpc's local route_tables (the listing of line 190)
    now,            \* seconds since the ENI wait loop was entered
    reached_timeout,\* delete_vpc's local reached_timeout
    out,            \* what the run printed and logged, in order
    result,         \* how the run ended
    past            \* the runs that ended before this one

vars == <<aws, start, services, pc, svc, calls, route_tables, now, reached_timeout,
          out, result, past>>

----------------------------------------------------------------------------
(* Bounds of the model. *)

\* resources of the account, beyond the network's default ones
MaxResources == 3
\* invocations of the script in a row
MaxRuns == 2

(* The script's constants. *)
ENI_TIMEOUT == 300
ENI_SLEEP == 10
POLL_SLEEP == 30

\* the network the script is asked to delete, and another one of the account
VPC == "vpc-1"
OtherVpc == "vpc-9"

----------------------------------------------------------------------------
(* The account: every resource the provider may hold.  A content of the    *)
(* account is a set of these ids; the lists are in the provider's order.   *)

SubnetU == << [id |-> "subnet-1", vpc |-> VPC], [id |-> "subnet-2", vpc |-> VPC] >>

InstanceU ==
    << [id |-> "i-1", vpc |-> VPC, subnet |-> "subnet-1", state |-> "running"],
       [id |-> "i-2", vpc |-> VPC, subnet |-> "subnet-1", state |-> "running"],
       [id |-> "i-3", vpc |-> VPC, subnet |-> "subnet-1", state |-> "stopped"] >>

\* assoc "": the address comes without the key AssociationId, which the
\* response of describe_addresses is free to leave out
AddressU ==
    << [id |-> "eipalloc-1", assoc |-> "eipassoc-1", instance |-> "i-1"],
       [id |-> "eipalloc-2", assoc |-> "", instance |-> "i-2"],
       [id |-> "eipalloc-3", assoc |-> "eipassoc-3", instance |-> "i-3"],
       [id |-> "eipalloc-9", assoc |-> "eipassoc-9", instance |-> "i-9"] >>

TgwU == << [id |-> "tgw-attach-1", resource |-> VPC],
           [id |-> "tgw-attach-9", resource |-> OtherVpc] >>

NatU == << [id |-> "nat-1", vpc |-> VPC], [id |-> "nat-9", vpc |-> OtherVpc] >>

PeeringU ==
    << [id |-> "pcx-1", accepter |-> VPC, requester |-> OtherVpc],
       [id |-> "pcx-2", accepter |-> OtherVpc, requester |-> VPC],
       [id |-> "pcx-9", accepter |-> OtherVpc, requester |-> "vpc-8"] >>

EndpointU == << [id |-> "vpce-1", vpc |-> VPC] >>

AclU == << [id |-> "acl-default", vpc |-> VPC, is_default |-> TRUE],
           [id |-> "acl-1", vpc |-> VPC, is_default |-> FALSE] >>

\* sticky: the provider owns the interface and keeps listing it after a
\* delete call it accepted, until it lets go of it by itself
EniU ==
    << [id |-> "eni-1", vpc |-> VPC, subnet |-> "subnet-1", attached |-> TRUE, sticky |-> TRUE],
       [id |-> "eni-2", vpc |-> VPC, subnet |-> "subnet-1", attached |-> FALSE, sticky |-> FALSE],
       [id |-> "eni-3", vpc |-> VPC, subnet |-> "subnet-2", attached |-> TRUE, sticky |-> FALSE],
       [id |-> "eni-9", vpc |-> OtherVpc, subnet |-> "subnet-9", attached |-> TRUE, sticky |-> FALSE] >>

IgwU == << [id |-> "igw-1", vpc |-> VPC] >>

SgU == << [id |-> "sg-default", vpc |-> VPC, group_name |-> "default"],
          [id |-> "sg-1", vpc |-> VPC, group_name |-> "custom"] >>

\* routes and associations of the two route tables; every table has its
\* local route, the main table its main association
RouteU ==
    << [id |-> "r-local-m", rt |-> "rtb-main", cidr |-> "10.0.0.0/16", origin |-> "CreateRouteTable"],
       [id |-> "r-m", rt |-> "rtb-main", cidr |-> "0.0.0.0/0", origin |-> "CreateRoute"],
       [id |-> "r-local-1", rt |-> "rtb-1", cidr |-> "10.0.0.0/16", origin |-> "CreateRouteTable"],
       [id |-> "r-1", rt |-> "rtb-1", cidr |-> "0.0.0.0/0", origin |-> "CreateRoute"],
       [id |-> "r-2", rt |-> "rtb-1", cidr |-> "192.168.0.0/16", origin |-> "EnableVgwRoutePropagation"] >>

AssocU ==
    << [id |-> "rtbassoc-main", rt |-> "rtb-main", main |-> TRUE, subnet |-> ""],
       [id |-> "rtbassoc-1", rt |-> "rtb-1", main |-> FALSE, subnet |-> ""],
       [id |-> "rtbassoc-2", rt |-> "rtb-1", main |-> FALSE, subnet |-> ""],
       [id |-> "rtbassoc-3", rt |-> "rtb-1", main |-> FALSE, subnet |-> "subnet-1"],
       [id |-> "rtbassoc-4", rt |-> "rtb-main", main |-> FALSE, subnet |-> ""] >>

RtU == << [id |-> "rtb-main", vpc |-> VPC], [id |-> "rtb-1", vpc |-> VPC] >>

\* what a network has from its creation, at no cost
Defaults == {"acl-default", "sg-default", "rtb-main", "r-local-m", "rtbassoc-main", "r-local-1"}

\* the ids a content may add, and what each one needs to be there
Optional ==
    {"subnet-1", "subnet-2", "i-1", "i-2", "i-3", "eipalloc-1", "eipalloc-2",
     "eipalloc-3",
     "eipalloc-9", "tgw-attach-1", "tgw-attach-9", "nat-1", "nat-9", "pcx-1",
     "pcx-2", "pcx-9", "vpce-1", "acl-1", "eni-1", "eni-2", "eni-3", "eni-9", "igw-1",
     "sg-1", "r-m", "rtb-1", "r-1", "r-2", "rtbassoc-1", "rtbassoc-2", "rtbassoc-3",
     "rtbassoc-4"}

Foreign == {"eipalloc-9", "tgw-attach-9", "nat-9", "pcx-9", "eni-9"}

Needs(x) ==
    CASE x \in {"i-1", "i-2", "i-3", "eni-1", "eni-2"} -> {"subnet-1"}
      [] x = "eni-3" -> {"subnet-2"}
      [] x = "eipalloc-1" -> {"i-1"}
      [] x = "eipalloc-2" -> {"i-2"}
      [] x = "eipalloc-3" -> {"i-3"}
      [] x \in {"r-1", "r-2", "rtbassoc-1", "rtbassoc-2"} -> {"rtb-1"}
      [] x = "rtbassoc-3" -> {"rtb-1", "subnet-1"}
      [] OTHER -> {}

RECURSIVE UpTo(_)
\* the sets of at most n optional ids
UpTo(n) ==
    IF n = 0 THEN {{}}
    ELSE LET S == UpTo(n - 1) IN S \cup {T \cup {x} : T \in S, x \in Optional}

Contents == {T \in UpTo(MaxResources) : \A x \in T : Needs(x) \subseteq T}

Pick(U, T) == SelectSeq(U, LAMBDA r : r.id \in T)

\* the route tables as describe_route_tables returns them
RtRecord(rt, T) ==
    [id |-> rt.id, vpc |-> rt.vpc,
     Routes |-> SelectSeq(RouteU, LAMBDA r : r.rt = rt.id /\ r.id \in T),
     Associations |-> SelectSeq(AssocU, LAMBDA a : a.rt = rt.id /\ a.id \in T)]

RtList(T) ==
    LET rts == Pick(RtU, T) IN [i \in 1..Len(rts) |-> RtRecord(rts[i], T)]

\* the provider holding the network (or not) with content T
Account(exists, creds, linger, T) ==
    LET S == IF exists THEN T \cup Defaults ELSE T \cap Foreign IN
    [creds |-> creds,
     natLinger |-> linger,
     vpcs |-> IF exists THEN {VPC, OtherVpc} ELSE {OtherVpc},
     subnets |-> Pick(SubnetU, S),
     instances |-> Pick(InstanceU, S),
     addresses |-> Pick(AddressU, S),
     tgw |-> Pick(TgwU, S),
     nat |-> Pick(NatU, S),
     peerings |-> Pick(PeeringU, S),
     endpoints |-> Pick(EndpointU, S),
     acls |-> Pick(AclU, S),
     enis |-> Pick(EniU, S),
     rts |-> RtList(S),
     igws |-> Pick(IgwU, S),
     sgs |-> Pick(SgU, S)]

----------------------------------------------------------------------------
(* The provider: what a mutating call needs and what it does.  A call is   *)
(* recorded with the line of the script that issues it.                    *)

Call(line, op, args) == [line |-> line, op |-> op, args |-> args]

Ids(list) == {list[i].id : i \in 1..Len(list)}

Without(list, id) == SelectSeq(list, LAMBDA r : r.id # id)

AllAssocs(st) ==
    UNION {Ids(st.rts[i].Associations) : i \in 1..Len(st.rts)}

\* the provider knows the resource the call names (else the call is
\* answered with a not-found error)
Present(st, c) ==
    LET a == c.args[1] IN
    CASE c.op = "disassociate_address" ->
            \E i \in 1..Len(st.addresses) : st.addresses[i].assoc = a
      [] c.op = "release_address" -> a \in Ids(st.addresses)
      [] c.op = "terminate_instances" ->
            \A i \in 1..Len(c.args) : c.args[i] \in Ids(st.instances)
      [] c.op = "delete_transit_gateway_vpc_attachment" -> a \in Ids(st.tgw)
      [] c.op = "delete_nat_gateway" -> a \in Ids(st.nat)
      [] c.op = "associate_dhcp_options" -> c.args[2] \in st.vpcs
      [] c.op = "delete_vpc_peering_connection" -> a \in Ids(st.peerings)
      [] c.op = "delete_vpc_endpoints" -> a \in Ids(st.endpoints)
      [] c.op = "delete_network_acl" -> a \in Ids(st.acls)
      [] c.op \in {"detach_network_interface", "delete_network_interface"} ->
            a \in Ids(st.enis)
      [] c.op = "delete_subnet" -> a \in Ids(st.subnets)
      [] c.op = "delete_route" ->
            \E i \in 1..Len(st.rts) :
                /\ st.rts[i].id = a
                /\ \E j \in 1..Len(st.rts[i].Routes) :
                       st.rts[i].Routes[j].cidr = c.args[2]
      [] c.op = "disassociate_route_table" -> a \in AllAssocs(st)
      [] c.op = "delete_route_table" -> a \in Ids(st.rts)
      [] c.op \in {"detach_internet_gateway", "delete_internet_gateway"} ->
            a \in Ids(st.igws)
      [] c.op = "delete_security_group" -> a \in Ids(st.sgs)
      [] c.op = "delete_vpc" -> a \in st.vpcs

\* the provider refuses the call because of what depends on the resource: a
\* route table that still has an association is not deleted
Blocked(st, c) ==
    /\ c.op = "delete_route_table"
    /\ \E i \in 1..Len(st.rts) :
           st.rts[i].id = c.args[1] /\ st.rts[i].Associations # <<>>

\* the provider's state after it accepted the call
Apply(st, c) ==
    LET a == c.args[1] IN
    CASE c.op = "disassociate_address" ->
            [st EXCEPT !.addresses =
                [i \in 1..Len(@) |->
                    IF @[i].assoc = a
                    THEN [@[i] EXCEPT !.assoc = "", !.instance = ""] ELSE @[i]]]
      [] c.op = "release_address" ->
            [st EXCEPT !.addresses = Without(@, a)]
      [] c.op = "terminate_instances" ->
            [st EXCEPT !.instances =
                SelectSeq(@, LAMBDA r : \A i \in 1..Len(c.args) : r.id # c.args[i])]
      [] c.op = "delete_transit_gateway_vpc_attachment" ->
            [st EXCEPT !.tgw = Without(@, a)]
      [] c.op = "delete_nat_gateway" ->
            IF st.natLinger THEN st ELSE [st EXCEPT !.nat = Without(@, a)]
      [] c.op = "associate_dhcp_options" -> st
      [] c.op = "delete_vpc_peering_connection" ->
            [st EXCEPT !.peerings = Without(@, a)]
      [] c.op = "delete_vpc_endpoints" ->
            [st EXCEPT !.endpoints = Without(@, a)]
      [] c.op = "delete_network_acl" -> [st EXCEPT !.acls = Without(@, a)]
      [] c.op = "detach_network_interface" ->
            [st EXCEPT !.enis =
                [i \in 1..Len(@) |->
                    IF @[i].id = a /\ ~@[i].sticky
                    THEN [@[i] EXCEPT !.attached = FALSE] ELSE @[i]]]
      [] c.op = "delete_network_interface" ->
            [st EXCEPT !.enis = SelectSeq(@, LAMBDA r : r.id # a \/ r.sticky)]
      [] c.op = "delete_subnet" ->
            [st EXCEPT !.subnets = Without(@, a),
                       !.rts = [i \in 1..Len(@) |->
                            [@[i] EXCEPT !.Associations =
                                SelectSeq(@, LAMBDA x : x.subnet # a)]]]
      [] c.op = "delete_route" ->
            [st EXCEPT !.rts = [i \in 1..Len(@) |->
                IF @[i].id = a
                THEN [@[i] EXCEPT !.Routes =
                        SelectSeq(@, LAMBDA r : r.cidr # c.args[2])]
                ELSE @[i]]]
      [] c.op = "disassociate_route_table" ->
            [st EXCEPT !.rts = [i \in 1..Len(@) |->
                [@[i] EXCEPT !.Associations = Without(@, a)]]]
      [] c.op = "delete_route_table" -> [st EXCEPT !.rts = Without(@, a)]
      [] c.op = "detach_internet_gateway" ->
            [st EXCEPT !.igws =
                [i \in 1..Len(@) |->
                    IF @[i].id = a THEN [@[i] EXCEPT !.vpc = ""] ELSE @[i]]]
      [] c.op = "delete_internet_gateway" -> [st EXCEPT !.igws = Without(@, a)]
      [] c.op = "delete_security_group" -> [st EXCEPT !.sgs = Without(@, a)]
      [] c.op = "delete_vpc" -> [st EXCEPT !.vpcs = @ \ {a}]

RECURSIVE Exec(_, _, _)
\* the provider's state after it accepted the first k calls of cs
Exec(st, cs, k) ==
    IF k = 0 THEN st ELSE Apply(Exec(st, cs, k - 1), cs[k])

\* the provider may accept each of the first k calls of cs when it is issued
OkPrefix(st, cs, k) ==
    \A i \in 1..k :
        LET at == Exec(st, cs, i - 1) IN Present(at, cs[i]) /\ ~Blocked(at, cs[i])

\* the ClientError a call the provider rejects is answered with
Errors(st, c) == IF Present(st, c) THEN {"Error"} ELSE {"NotFound"}

\* the vpc-id filter of the describe calls
InVpc(list) == SelectSeq(list, LAMBDA r : r.vpc = VPC)

RECURSIVE Concat(_)
Concat(ss) == IF ss = <<>> THEN <<>> ELSE Head(ss) \o Concat(Tail(ss))

\* vpc_exists asking for the networks without naming the one it is about
vpc_exists_any(st) == st.creds

\* vpc_exists: describe_vpcs(VpcIds=[vpc_id]) answers without a ClientError
vpc_exists(st) == st.creds /\ VPC \in st.vpcs

----------------------------------------------------------------------------
(* The calls each block of the script issues, from what the provider lists *)
(* when the block is entered.                                              *)

Map(list, F(_)) == [i \in 1..Len(list) |-> F(list[i])]

\* lines 44-47: the Elastic IPs of every instance of every subnet, in the
\* order the loops come to them
EipAddresses(st) ==
    LET OfInstance(i) == SelectSeq(st.addresses, LAMBDA a : a.instance = i.id)
        OfSubnet(s) ==
            Concat(Map(SelectSeq(st.instances, LAMBDA i : i.subnet = s.id), OfInstance))
    IN Concat(Map(InVpc(st.subnets), OfSubnet))

\* line 49: eip["AssociationId"] raises KeyError for an address without
\* the key
EipRaises(st) ==
    \E i \in 1..Len(EipAddresses(st)) : EipAddresses(st)[i].assoc = ""

\* the addresses the loop handles before it is left by a KeyError, if it is
EipReached(st) ==
    LET eips == EipAddresses(st)
        stop == IF EipRaises(st)
                THEN CHOOSE i \in 1..Len(eips) :
                        eips[i].assoc = "" /\ \A j \in 1..(i - 1) : eips[j].assoc # ""
                ELSE Len(eips) + 1
    IN SubSeq(eips, 1, stop - 1)

\* EipCalls releasing an address before it is disassociated
EipCallsReleaseFirst(st) ==
    Concat(Map(EipReached(st),
               LAMBDA a : << Call(50, "release_address", <<a.id>>),
                             Call(49, "disassociate_address", <<a.assoc>>) >>))

\* EipCalls with the release of line 50 forgotten
EipCallsNoRelease(st) ==
    Map(EipReached(st), LAMBDA a : Call(49, "disassociate_address", <<a.assoc>>))

\* lines 48-50
EipCalls(st) ==
    Concat(Map(EipReached(st),
               LAMBDA a : << Call(49, "disassociate_address", <<a.assoc>>),
                             Call(50, "release_address", <<a.id>>) >>))

\* RunningInstances without the filter on the state
RunningInstancesAny(st) == InVpc(st.instances)

\* lines 53-62: the running instances of the network
RunningInstances(st) ==
    SelectSeq(InVpc(st.instances), LAMBDA i : i.state = "running")

\* lines 64-70
TerminateCalls(st) ==
    LET instance_ids == Map(RunningInstances(st), LAMBDA i : i.id) IN
    IF instance_ids # <<>>
    THEN << Call(68, "terminate_instances", instance_ids) >> ELSE <<>>

\* TgwCalls without the test of line 118
TgwCallsUnfiltered(st) ==
    Map(st.tgw, LAMBDA t : Call(119, "delete_transit_gateway_vpc_attachment", <<t.id>>))

\* lines 115-121: the attachments of the account whose resource is the network
TgwCalls(st) ==
    Map(SelectSeq(st.tgw, LAMBDA t : t.resource = VPC),
        LAMBDA t : Call(119, "delete_transit_gateway_vpc_attachment", <<t.id>>))

\* lines 126-128 and 212-220
NatCalls(st, line) ==
    Map(InVpc(st.nat), LAMBDA n : Call(line, "delete_nat_gateway", <<n.id>>))

\* lines 131-133: a resource object is true, so the call is always made
DhcpCalls == << Call(133, "associate_dhcp_options", <<"default", VPC>>) >>

\* lines 136-142
PeeringCalls(st) ==
    Concat(Map(st.peerings, LAMBDA p :
        (IF p.accepter = VPC
         THEN << Call(140, "delete_vpc_peering_connection", <<p.id>>) >> ELSE <<>>)
        \o
        (IF p.requester = VPC
         THEN << Call(142, "delete_vpc_peering_connection", <<p.id>>) >> ELSE <<>>)))

\* lines 145-148
EndpointCalls(st) ==
    Map(InVpc(st.endpoints), LAMBDA e : Call(148, "delete_vpc_endpoints", <<e.id>>))

\* line 152
AclDeleted(netacl) == ~netacl.is_default

\* lines 151-153
AclCalls(st) ==
    Map(SelectSeq(InVpc(st.acls), AclDeleted),
        LAMBDA n : Call(153, "delete_network_acl", <<n.id>>))

\* EniCalls detaching every interface, attached or not
EniCallsAlwaysDetach(st) ==
    Concat(Map(InVpc(st.enis), LAMBDA ni :
        << Call(175, "detach_network_interface", <<ni.id>>),
           Call(177, "delete_network_interface", <<ni.id>>) >>))

\* EniCalls deleting every interface twice in a batch
EniCallsTwice(st) ==
    Concat(Map(InVpc(st.enis), LAMBDA ni :
        << Call(177, "delete_network_interface", <<ni.id>>),
           Call(177, "delete_network_interface", <<ni.id>>) >>))

\* lines 171-177: one corrective batch over the interfaces listed
EniCalls(st) ==
    Concat(Map(InVpc(st.enis), LAMBDA ni :
        (IF ni.attached
         THEN << Call(175, "detach_network_interface", <<ni.id>>) >> ELSE <<>>)
        \o << Call(177, "delete_network_interface", <<ni.id>>) >>))

\* SubnetCalls deleting the subnet before its interfaces
SubnetCallsSubnetFirst(st) ==
    Concat(Map(InVpc(st.subnets), LAMBDA s :
        << Call(186, "delete_subnet", <<s.id>>) >>
        \o Map(SelectSeq(st.enis, LAMBDA ni : ni.subnet = s.id),
               LAMBDA ni : Call(185, "delete_network_interface", <<ni.id>>))))

\* lines 183-186
SubnetCalls(st) ==
    Concat(Map(InVpc(st.subnets), LAMBDA s :
        Map(SelectSeq(st.enis, LAMBDA ni : ni.subnet = s.id),
            LAMBDA ni : Call(185, "delete_network_interface", <<ni.id>>))
        \o << Call(186, "delete_subnet", <<s.id>>) >>))

\* AssocRemoved without the test of Main
AssocRemovedAny(association) == TRUE

\* line 199
AssocRemoved(association) == ~association.main

\* lines 198-205: inside the loop over the routes of the table
AssocCalls(route_table) ==
    Concat(Map(SelectSeq(route_table.Associations, AssocRemoved), LAMBDA a :
        << Call(200, "disassociate_route_table", <<a.id>>),
           Call(203, "delete_route_table", <<route_table.id>>) >>))

\* lines 191-205
RouteCalls(tables) ==
    Concat(Map(tables, LAMBDA route_table :
        Concat(Map(route_table.Routes, LAMBDA route :
            (IF route.origin = "CreateRoute"
             THEN << Call(194, "delete_route", <<route_table.id, route.cidr>>) >>
             ELSE <<>>)
            \o AssocCalls(route_table)))))

\* OrphanCalls taking a table with only its main association for an orphan
OrphanCallsNoExplicit(tables) ==
    Map(SelectSeq(tables, LAMBDA route_table :
            SelectSeq(route_table.Associations, LAMBDA a : ~a.main) = <<>>),
        LAMBDA route_table : Call(209, "delete_route_table", <<route_table.id>>))

\* lines 207-209: over the same listing as lines 191-205
OrphanCalls(tables) ==
    Map(SelectSeq(tables, LAMBDA route_table : route_table.Associations = <<>>),
        LAMBDA route_table : Call(209, "delete_route_table", <<route_table.id>>))

\* IgwCalls deleting a gateway before it is detached
IgwCallsDeleteFirst(st) ==
    Concat(Map(InVpc(st.igws), LAMBDA gw :
        << Call(225, "delete_internet_gateway", <<gw.id>>),
           Call(224, "detach_internet_gateway", <<gw.id, VPC>>) >>))

\* lines 223-225
IgwCalls(st) ==
    Concat(Map(InVpc(st.igws), LAMBDA gw :
        << Call(224, "detach_internet_gateway", <<gw.id, VPC>>),
           Call(225, "delete_internet_gateway", <<gw.id>>) >>))

\* SgDeleted comparing with a name no group has
SgDeletedMisspelt(sg) == sg.group_name # "Default"

\* line 229
SgDeleted(sg) == sg.group_name # "default"

\* lines 228-230
SgCalls(st) ==
    Map(SelectSeq(InVpc(st.sgs), SgDeleted),
        LAMBDA sg : Call(230, "delete_security_group", <<sg.id>>))

\* line 232
VpcCalls == << Call(232, "delete_vpc", <<VPC>>) >>

----------------------------------------------------------------------------
(* The command line. *)

\* the values of --services the model runs the script with (none given: <<>>)
ServiceArgs ==
    { <<>>, <<"ec2">>, <<"rds">>, <<"ec2", ",", "rds">>, <<"rds", ",", "ec2">>,
      <<"ec2", ",", "ec2">>, <<"ec2", "rds">> }

RECURSIVE Split(_)
\* str.split(","), line 76
Split(s) ==
    IF \A i \in 1..Len(s) : s[i] # ","
    THEN << s >>
    ELSE LET i == CHOOSE j \in 1..Len(s) :
                      s[j] = "," /\ \A k \in 1..(j - 1) : s[k] # ","
         IN << SubSeq(s, 1, i - 1) >> \o Split(SubSeq(s, i + 1, Len(s)))

\* Implemented matching the start of the name
ImplementedPrefix(service) == service # <<>> /\ service[1] = "ec2"

\* line 74: the services the script implements
Implemented(service) == service = <<"ec2">>

----------------------------------------------------------------------------
(* The script. *)

NoResult == [ret |-> "none", exit |-> -1, error |-> ""]

Fresh ==
    /\ pc = "main"
    /\ svc = 1
    /\ calls = <<>>
    /\ route_tables = <<>>
    /\ now = 0
    /\ reached_timeout = FALSE
    /\ out = <<>>
    /\ result = NoResult

Init ==
    /\ \E T \in Contents, exists \in BOOLEAN, creds \in BOOLEAN, linger \in BOOLEAN :
          /\ linger => exists /\ "nat-1" \in T
          /\ ~exists => T \subseteq Foreign
          /\ aws = Account(exists, creds, linger, T)
    /\ start = aws
    /\ services \in ServiceArgs
    /\ past = <<>>
    /\ Fresh

\* Raise of a script that catches the exception and gives the deletion up
RaiseCaught(e, logged) ==
    /\ pc' = "report"
    /\ result' = [ret |-> "False", exit |-> -1, error |-> e]
    /\ out' = out \o logged

\* an exception nothing catches, raised after the lines of logged were
\* written: the traceback, exit status 1
Raise(e, logged) ==
    /\ pc' = "exit"
    /\ result' = [ret |-> "none", exit |-> 1, error |-> e]
    /\ out' = Append(out \o logged, "Traceback")

Crash(e) == Raise(e, <<>>)

\* A block of the script that lists (when lists) and then issues the calls
\* of plan in order, the provider being in state st when it starts.
\* Written(k) is what the block has written when it issues its k-th call,
\* Written(Len(plan) + 1) what it has written at its end.  Every call may be
\* rejected, and so may the listing; the ClientError is not caught and ends
\* the run where it is raised.
BlockLogged(st, plan, lists, next, Written(_), res) ==
    \/ /\ OkPrefix(st, plan, Len(plan))
       /\ aws' = Exec(st, plan, Len(plan))
       /\ calls' = calls \o plan
       /\ pc' = next
       /\ out' = out \o Written(Len(plan) + 1)
       /\ result' = res
    \/ \E k \in 1..Len(plan) :
          /\ OkPrefix(st, plan, k - 1)
          /\ aws' = Exec(st, plan, k - 1)
          /\ calls' = calls \o SubSeq(plan, 1, k)
          /\ \E e \in Errors(Exec(st, plan, k - 1), plan[k]) : Raise(e, Written(k))
    \/ /\ lists
       /\ aws' = st
       /\ calls' = calls
       /\ Crash("Error")

\* a block that writes msgs before its first call and nothing else
Block(st, plan, lists, next, msgs, res) ==
    BlockLogged(st, plan, lists, next, LAMBDA k : msgs, res)

\* lines 257-259
Main ==
    /\ pc = "main"
    /\ IF services # <<>>
       THEN pc' = "services" /\ out' = Append(out, "calling destroy_services")
       ELSE pc' = "call_delete_vpc" /\ out' = out
    /\ UNCHANGED <<start, aws, services, svc, calls, route_tables, now, reached_timeout,
                   result, past>>

\* AfterKeyError of a loop that the except clause ends, and the run with it
AfterKeyErrorAbort == "exit"

\* lines 79-80: the except clause is passed and the loop of line 76 goes on
AfterKeyError == "services"

\* lines 76-80: one turn of the loop over the services
DestroyServices ==
    /\ pc = "services"
    /\ IF svc > Len(Split(services))
       THEN pc' = "call_delete_vpc" /\ UNCHANGED <<svc, out>>
       ELSE IF Implemented(Split(services)[svc])
            THEN pc' = "ec2_credentials" /\ UNCHANGED <<svc, out>>
            ELSE /\ out' = Append(out, "not implemented")
                 /\ svc' = svc + 1
                 /\ pc' = AfterKeyError
    /\ UNCHANGED <<start, aws, services, calls, route_tables, now, reached_timeout,
                   result, past>>

\* lines 27-35
Ec2Credentials ==
    /\ pc = "ec2_credentials"
    /\ IF aws.creds
       THEN pc' = "ec2_exists" /\ UNCHANGED <<out, result>>
       ELSE /\ out' = Append(out, "credentials invalid")
            /\ result' = [ret |-> "none", exit |-> 1, error |-> ""]
            /\ pc' = "exit"
    /\ UNCHANGED <<start, aws, services, svc, calls, route_tables, now, reached_timeout, past>>

\* lines 37-41
Ec2Exists ==
    /\ pc = "ec2_exists"
    /\ IF vpc_exists(aws)
       THEN pc' = "ec2_eips" /\ UNCHANGED <<svc, out>>
       ELSE /\ out' = Append(out, "does not exist")
            /\ svc' = svc + 1
            /\ pc' = "services"
    /\ UNCHANGED <<start, aws, services, calls, route_tables, now, reached_timeout,
                   result, past>>

\* lines 43-50; a KeyError of line 49 is caught by line 79, which logs it as
\* a service not implemented and goes on with the loop of line 76
Ec2ReleaseEips ==
    /\ pc = "ec2_eips"
    /\ BlockLogged(aws, EipCalls(aws), TRUE,
                   IF EipRaises(aws) THEN AfterKeyError ELSE "ec2_terminate",
                   LAMBDA k : IF EipRaises(aws) /\ k > Len(EipCalls(aws))
                              THEN <<"not implemented">> ELSE <<>>,
                   result)
    /\ svc' = IF pc' = "services" THEN svc + 1 ELSE svc
    /\ UNCHANGED <<start, services, route_tables, now, reached_timeout, past>>

\* lines 64-69: the list of instances, and around the call the wait
\* announced and the response
TerminateWritten(plan, k) ==
    <<"instance deletion list">>
    \o (IF plan # <<>> THEN <<"waiting for instances to terminate">> ELSE <<>>)
    \o (IF plan # <<>> /\ k > Len(plan) THEN <<"terminate response">> ELSE <<>>)

\* lines 52-70, and the return to the loop of line 76
Ec2Terminate ==
    /\ pc = "ec2_terminate"
    /\ BlockLogged(aws, TerminateCalls(aws), TRUE, "services",
                   LAMBDA k : TerminateWritten(TerminateCalls(aws), k), result)
    /\ svc' = IF pc' = "services" THEN svc + 1 ELSE svc
    /\ UNCHANGED <<start, services, route_tables, now, reached_timeout, past>>

\* PlanOrder with the route tables taken before the subnets
PlanOrderRoutesFirst ==
    << "tgw", "nat", "dhcp", "peerings", "endpoints", "acls", "eni_enter",
       "eni_wait", "routes", "orphans", "subnets", "nat2", "igws", "sgs", "vpc" >>

\* lines 111-233: the blocks of delete_vpc in the order of the statements
PlanOrder ==
    << "tgw", "nat", "dhcp", "peerings", "endpoints", "acls", "eni_enter",
       "eni_wait", "subnets", "routes", "orphans", "nat2", "igws", "sgs", "vpc" >>

\* the block that follows block p
After(p) ==
    LET i == CHOOSE j \in 1..Len(PlanOrder) : PlanOrder[j] = p IN
    IF i = Len(PlanOrder) THEN "report" ELSE PlanOrder[i + 1]

\* line 261
CallDeleteVpc ==
    /\ pc = "call_delete_vpc"
    /\ pc' = "dv_exists"
    /\ out' = Append(out, "calling delete_vpc")
    /\ UNCHANGED <<start, aws, services, svc, calls, route_tables, now, reached_timeout,
                   result, past>>

\* lines 93-97
DvExists ==
    /\ pc = "dv_exists"
    /\ IF vpc_exists(aws)
       THEN pc' = "dv_guard" /\ UNCHANGED <<out, result>>
       ELSE /\ out' = Append(out, "does not exist")
            /\ result' = [result EXCEPT !.ret = "False"]
            /\ pc' = "report"
    /\ UNCHANGED <<start, aws, services, svc, calls, route_tables, now, reached_timeout, past>>

\* GuardRefuses looking for more than one running instance
GuardRefusesSeveral(st) == Len(RunningInstances(st)) > 1

\* lines 101-105: the guard finds running instances in the network
GuardRefuses(st) == RunningInstances(st) # <<>>

\* lines 101-111
DvGuard ==
    /\ pc = "dv_guard"
    /\ \/ IF GuardRefuses(aws)
          THEN /\ out' = Append(out, "running instances exist")
               /\ result' = [result EXCEPT !.ret = "False"]
               /\ pc' = "report"
          ELSE /\ pc' = PlanOrder[1]
               /\ UNCHANGED <<out, result>>
       \/ Crash("Error")
    /\ UNCHANGED <<start, aws, services, svc, calls, route_tables, now, reached_timeout, past>>

\* lines 113-121
Tgw ==
    /\ pc = "tgw"
    /\ Block(aws, TgwCalls(aws), TRUE, After("tgw"), <<>>, result)
    /\ UNCHANGED <<start, services, svc, route_tables, now, reached_timeout, past>>

\* lines 123-128
NatGateways ==
    /\ pc = "nat"
    /\ Block(aws, NatCalls(aws, 128), TRUE, After("nat"), <<>>, result)
    /\ UNCHANGED <<start, services, svc, route_tables, now, reached_timeout, past>>

\* lines 130-133
Dhcp ==
    /\ pc = "dhcp"
    /\ Block(aws, DhcpCalls, FALSE, After("dhcp"), <<>>, result)
    /\ UNCHANGED <<start, services, svc, route_tables, now, reached_timeout, past>>

\* lines 135-142
Peerings ==
    /\ pc = "peerings"
    /\ Block(aws, PeeringCalls(aws), TRUE, After("peerings"), <<>>, result)
    /\ UNCHANGED <<start, services, svc, route_tables, now, reached_timeout, past>>

\* lines 144-148
Endpoints ==
    /\ pc = "endpoints"
    /\ Block(aws, EndpointCalls(aws), TRUE, After("endpoints"), <<>>, result)
    /\ UNCHANGED <<start, services, svc, route_tables, now, reached_timeout, past>>

\* lines 150-153
Acls ==
    /\ pc = "acls"
    /\ Block(aws, AclCalls(aws), TRUE, After("acls"), <<>>, result)
    /\ UNCHANGED <<start, services, svc, route_tables, now, reached_timeout, past>>

\* lines 155-159
EniEnter ==
    /\ pc = "eni_enter"
    /\ now' = 0
    /\ reached_timeout' = TRUE
    /\ out' = Append(out, "proceed with deleting ENIs")
    /\ pc' = After("eni_enter")
    /\ UNCHANGED <<start, aws, services, svc, calls, route_tables, result, past>>

StickyEnis(st) == {st.enis[i].id : i \in {j \in 1..Len(st.enis) : st.enis[j].sticky}}

\* the provider lets go of the interfaces of gone
LetGo(st, gone) == [st EXCEPT !.enis = SelectSeq(@, LAMBDA r : r.id \notin gone)]

\* the seconds slept in a batch that issued the calls cs: line 176, before
\* every delete call
BatchSleep(cs) ==
    ENI_SLEEP * Cardinality({i \in 1..Len(cs) : cs[i].line = 177})

\* LoopTest of a loop that has no ceiling
LoopTestForever(t) == t >= 0

\* lines 168-172: the turn is announced, and the id of every interface is
\* printed when its turn comes, before its detach and delete calls; k is the
\* call being issued, or one more than the calls of the batch at its end
EniWritten(st, plan, k) ==
    LET listed == InVpc(st.enis)
        done == Cardinality({i \in 1..Len(plan) : i < k /\ plan[i].line = 177})
        seen == IF k > Len(plan) THEN Len(listed) ELSE done + 1
    IN <<"waiting on ENIs to delete">> \o [i \in 1..seen |-> listed[i].id]

\* line 160: the loop goes on at time t
LoopTest(t) == t < ENI_TIMEOUT

\* AfterTimeout of a wait whose timeout gives the run up
AfterTimeoutAbort == "report"

\* lines 180-182: where the run goes when the loop is left by its condition
AfterTimeout == After("eni_wait")

\* lines 160-181: one test of the loop condition and, when it holds, one
\* turn of the loop.  The provider may let go of interfaces it owns before
\* each of the two listings of the turn (gone1, gone2) and between the
\* second listing and the calls (gone3, during the sleep of line 176); each
\* listing may be rejected.
EniWait ==
    /\ pc = "eni_wait"
    /\ IF ~LoopTest(now)
       THEN /\ pc' = AfterTimeout
            /\ out' = IF reached_timeout
                      THEN Append(out, "ENI deletion timed out") ELSE out
            /\ UNCHANGED <<aws, calls, now, reached_timeout, result>>
       ELSE \/ /\ Crash("Error")
               /\ UNCHANGED <<aws, calls, now, reached_timeout>>
            \/ \E gone1 \in SUBSET StickyEnis(aws) :
                 LET st1 == LetGo(aws, gone1) IN
                 IF InVpc(st1.enis) = <<>>
                 THEN /\ aws' = st1
                      /\ reached_timeout' = FALSE
                      /\ out' = Append(out, "no ENIs remaining")
                      /\ pc' = After("eni_wait")
                      /\ UNCHANGED <<calls, now, result>>
                 ELSE \/ /\ aws' = st1
                         /\ Raise("Error", <<"waiting on ENIs to delete">>)
                         /\ UNCHANGED <<calls, now, reached_timeout>>
                      \/ \E gone2 \in SUBSET StickyEnis(st1) :
                           LET st2 == LetGo(st1, gone2) IN
                           \E gone3 \in SUBSET StickyEnis(st2) :
                              /\ BlockLogged(LetGo(st2, gone3), EniCalls(st2), FALSE,
                                             "eni_wait",
                                             LAMBDA k : EniWritten(st2, EniCalls(st2), k),
                                             result)
                              /\ now' = now
                                        + BatchSleep(SubSeq(calls', Len(calls) + 1, Len(calls')))
                                        + (IF pc' = "eni_wait" THEN POLL_SLEEP ELSE 0)
                              /\ UNCHANGED reached_timeout
    /\ UNCHANGED <<start, services, svc, route_tables, past>>

\* lines 182-186
Subnets ==
    /\ pc = "subnets"
    /\ Block(aws, SubnetCalls(aws), TRUE, After("subnets"), <<>>, result)
    /\ UNCHANGED <<start, services, svc, route_tables, now, reached_timeout, past>>

\* lines 188-205
Routes ==
    /\ pc = "routes"
    /\ Block(aws, RouteCalls(InVpc(aws.rts)), TRUE, After("routes"), <<>>, result)
    /\ route_tables' = IF pc' = "exit" /\ calls' = calls
                       THEN route_tables ELSE InVpc(aws.rts)
    /\ UNCHANGED <<start, services, svc, now, reached_timeout, past>>

\* lines 206-209
Orphans ==
    /\ pc = "orphans"
    /\ Block(aws, OrphanCalls(route_tables), FALSE, After("orphans"), <<>>, result)
    /\ UNCHANGED <<start, services, svc, route_tables, now, reached_timeout, past>>

\* lines 211-220
NatGateways2 ==
    /\ pc = "nat2"
    /\ Block(aws, NatCalls(aws, 220), TRUE, After("nat2"), <<>>, result)
    /\ UNCHANGED <<start, services, svc, route_tables, now, reached_timeout, past>>

\* lines 222-225
Igws ==
    /\ pc = "igws"
    /\ Block(aws, IgwCalls(aws), TRUE, After("igws"), <<>>, result)
    /\ UNCHANGED <<start, services, svc, route_tables, now, reached_timeout, past>>

\* lines 227-230
Sgs ==
    /\ pc = "sgs"
    /\ Block(aws, SgCalls(aws), TRUE, After("sgs"), <<>>, result)
    /\ UNCHANGED <<start, services, svc, route_tables, now, reached_timeout, past>>

\* lines 232-233
DeleteVpc ==
    /\ pc = "vpc"
    /\ Block(aws, VpcCalls, FALSE, After("vpc"), <<>>, [result EXCEPT !.ret = "True"])
    /\ UNCHANGED <<start, services, svc, route_tables, now, reached_timeout, past>>

\* Verdict of a script that reports every run as a success
VerdictAlways(ret) == "destroyed"

\* lines 262-265: what is printed for the value delete_vpc returned
Verdict(ret) == IF ret = "True" THEN "destroyed" ELSE "unable to destroy"

\* lines 262-265, and the end of the script
Report ==
    /\ pc = "report"
    /\ out' = Append(out, Verdict(result.ret))
    /\ result' = [result EXCEPT !.exit = 0]
    /\ pc' = "exit"
    /\ UNCHANGED <<start, aws, services, svc, calls, route_tables, now, reached_timeout, past>>

\* The script is invoked again with the same arguments, after a run that
\* ended with its report.
Rerun ==
    /\ pc = "exit"
    /\ result.exit = 0
    /\ Len(past) + 1 < MaxRuns
    /\ past' = Append(past, [result |-> result, calls |-> calls, out |-> out])
    /\ pc' = "main"
    /\ svc' = 1
    /\ calls' = <<>>
    /\ route_tables' = <<>>
    /\ now' = 0
    /\ reached_timeout' = FALSE
    /\ out' = <<>>
    /\ result' = NoResult
    /\ start' = aws
    /\ UNCHANGED <<aws, services>>

Next ==
    \/ Main
    \/ DestroyServices
    \/ Ec2Credentials
    \/ Ec2Exists
    \/ Ec2ReleaseEips
    \/ Ec2Terminate
    \/ CallDeleteVpc
    \/ DvExists
    \/ DvGuard
    \/ Tgw
    \/ NatGateways
    \/ Dhcp
    \/ Peerings
    \/ Endpoints
    \/ Acls
    \/ EniEnter
    \/ EniWait
    \/ Subnets
    \/ Routes
    \/ Orphans
    \/ NatGateways2
    \/ Igws
    \/ Sgs
    \/ DeleteVpc
    \/ Report
    \/ Rerun

Spec == Init /\ [][Next]_vars

----------------------------------------------------------------------------
(* What the claims speak of. *)

CallIndex == 1..Len(calls)

\* --services names the ec2 service
Ec2Requested ==
    /\ services # <<>>
    /\ \E i \in 1..Len(Split(services)) : Split(services)[i] = <<"ec2">>

\* the step of the Deletion Plan a call belongs to, by the place it is issued
PlanStep(c) ==
    CASE c.line \in {49, 50} -> 1
      [] c.line = 68 -> 2
      [] c.line = 119 -> 3
      [] c.line = 128 -> 4
      [] c.line = 133 -> 5
      [] c.line \in {140, 142} -> 6
      [] c.line = 148 -> 7
      [] c.line = 153 -> 8
      [] c.line \in {175, 177} -> 9
      [] c.line \in {185, 186} -> 10
      [] c.line \in {194, 200, 203, 209} -> 11
      [] c.line = 220 -> 12
      [] c.line \in {224, 225} -> 13
      [] c.line = 230 -> 14
      [] c.line = 232 -> 15

DeleteOps ==
    {"delete_transit_gateway_vpc_attachment", "delete_nat_gateway",
     "delete_vpc_peering_connection", "delete_vpc_endpoints", "delete_network_acl",
     "delete_network_interface", "delete_subnet", "delete_route",
     "delete_route_table", "delete_internet_gateway", "delete_security_group",
     "delete_vpc"}

\* the run ended with the report of a destroyed network
Destroyed == pc = "exit" /\ result.ret = "True" /\ result.exit = 0

\* the run is inside the blocks of delete_vpc that follow the guard
InPlan == \E i \in 1..Len(PlanOrder) : pc = PlanOrder[i]

----------------------------------------------------------------------------
\* C1: the mutating calls of a run are issued in the order of the Deletion
\* Plan (Elastic IPs, termination, transit gateway attachments, NAT gateways,
\* DHCP options, peerings, endpoints, ACLs, the ENI wait, subnets, routes and
\* route tables, NAT gateways again, internet gateways, security groups, the
\* network): no call of a later step precedes a call of an earlier one, and
\* the delete of the network is the last call of the run.
C1_PlanOrder ==
    /\ \A i, j \in CallIndex : i < j => PlanStep(calls[i]) <= PlanStep(calls[j])
    /\ \A i \in CallIndex : calls[i].op = "delete_vpc" => i = Len(calls)

\* a destroyed network whose run terminated an instance, deleted a subnet and
\* ended with the delete of the network
C1_Witness ==
    /\ Destroyed
    /\ \E i, j \in CallIndex : calls[i].line = 68 /\ calls[j].line = 186
    /\ calls[Len(calls)].op = "delete_vpc"

\* C2: the default security group and the default network ACL never receive
\* a delete call; the ones that do are not default.
C2_DefaultsKept ==
    \A i \in CallIndex :
        /\ calls[i].op = "delete_security_group" =>
              \A k \in 1..Len(SgU) :
                  SgU[k].id = calls[i].args[1] => SgU[k].group_name # "default"
        /\ calls[i].op = "delete_network_acl" =>
              \A k \in 1..Len(AclU) :
                  AclU[k].id = calls[i].args[1] => ~AclU[k].is_default

\* a destroyed network that had its defaults, whose custom ACL and custom
\* security group were deleted
C2_Witness ==
    /\ Destroyed
    /\ "sg-default" \in Ids(start.sgs) /\ "acl-default" \in Ids(start.acls)
    /\ \E i, j \in CallIndex :
          /\ calls[i] = Call(153, "delete_network_acl", <<"acl-1">>)
          /\ calls[j] = Call(230, "delete_security_group", <<"sg-1">>)

\* C3: with a running instance in the network and the ec2 service not
\* requested, no mutating call is issued: the run never enters the blocks
\* after the guard, and when it reports, it reports the refusal.
C3_GuardRefusal ==
    (~Ec2Requested /\ RunningInstances(start) # <<>>) =>
        /\ calls = <<>>
        /\ ~InPlan
        /\ aws = start
        /\ (pc = "exit" /\ result.exit = 0) =>
              /\ result.ret = "False"
              /\ vpc_exists(start) =>
                    \E i \in 1..Len(out) : out[i] = "running instances exist"

\* a run refused for a running instance, services being given without ec2
C3_Witness ==
    /\ pc = "exit" /\ result.exit = 0 /\ result.ret = "False"
    /\ services # <<>> /\ ~Ec2Requested
    /\ RunningInstances(start) # <<>>
    /\ \E i \in 1..Len(out) : out[i] = "running instances exist"

\* C4: with the ec2 service requested, when the first delete call of a
\* subnet is issued every instance that was running has received a terminate
\* call and every Elastic IP of an instance of the network a release call.
C4_Ec2BeforeSubnets ==
    Ec2Requested =>
        \A j \in CallIndex : calls[j].op = "delete_subnet" =>
            /\ \A n \in 1..Len(RunningInstances(start)) :
                  \E i \in 1..(j - 1) :
                      /\ calls[i].op = "terminate_instances"
                      /\ \E k \in 1..Len(calls[i].args) :
                             calls[i].args[k] = RunningInstances(start)[n].id
            /\ \A n \in 1..Len(start.addresses) :
                  start.addresses[n].instance \in Ids(InVpc(start.instances)) =>
                      \E i \in 1..(j - 1) :
                          calls[i] = Call(50, "release_address", <<start.addresses[n].id>>)

\* a subnet delete in a run with ec2 requested, the network having had a
\* running instance and an Elastic IP on an instance
C4_Witness ==
    /\ Ec2Requested
    /\ \E j \in CallIndex : calls[j].op = "delete_subnet"
    /\ RunningInstances(start) # <<>>
    /\ \E n \in 1..Len(start.addresses) :
          start.addresses[n].instance \in Ids(InVpc(start.instances))

\* C5: without the ec2 service named in --services, no terminate call and
\* no Elastic IP disassociate or release call is issued.
C5_Ec2OnlyOnRequest ==
    ~Ec2Requested =>
        \A i \in CallIndex :
            calls[i].op \notin
                {"terminate_instances", "disassociate_address", "release_address"}

\* a network destroyed with services given but not ec2, an Elastic IP being
\* on one of its instances
C5_Witness ==
    /\ Destroyed
    /\ services # <<>> /\ ~Ec2Requested
    /\ \E n \in 1..Len(start.addresses) :
          start.addresses[n].instance \in Ids(InVpc(start.instances))

\* C6: the main association of a route table never receives a disassociate
\* call.
C6_MainAssociationKept ==
    \A i \in CallIndex : calls[i].op = "disassociate_route_table" =>
        \A k \in 1..Len(AssocU) :
            AssocU[k].id = calls[i].args[1] => ~AssocU[k].main

\* a disassociate call for another association of the table that has the
\* main association
C6_Witness ==
    \E i \in CallIndex, t \in 1..Len(route_tables) :
        /\ calls[i].op = "disassociate_route_table"
        /\ calls[i].args[1] \in Ids(route_tables[t].Associations)
        /\ \E a \in 1..Len(route_tables[t].Associations) :
               route_tables[t].Associations[a].main

\* C7: before any delete call for a route table, every non-main association
\* the table was listed with has received its disassociate call.
C7_DisassociateBeforeDelete ==
    \A j \in CallIndex, t \in 1..Len(route_tables) :
        (calls[j].op = "delete_route_table" /\ calls[j].args[1] = route_tables[t].id) =>
            \A a \in 1..Len(route_tables[t].Associations) :
                ~route_tables[t].Associations[a].main =>
                    \E i \in 1..(j - 1) :
                        /\ calls[i].op = "disassociate_route_table"
                        /\ calls[i].args[1] = route_tables[t].Associations[a].id

\* C8: in a run no route table receives two delete calls and no association
\* two disassociate calls.
C8_OncePerTable ==
    \A i, j \in CallIndex :
        (/\ i < j
         /\ calls[i].op \in {"delete_route_table", "disassociate_route_table"}
         /\ calls[i].op = calls[j].op) => calls[i].args # calls[j].args

\* C9: in a run that follows a run which destroyed the network, no mutating
\* call is issued, the blocks after the existence test are never entered, and
\* the run ends reporting the network as absent.
C9_SecondRunAbsent ==
    (past # <<>> /\ past[Len(past)].result.ret = "True") =>
        /\ calls = <<>>
        /\ ~InPlan /\ pc # "dv_guard"
        /\ aws = start
        /\ pc = "exit" =>
              /\ result = [ret |-> "False", exit |-> 0, error |-> ""]
              /\ \E i \in 1..Len(out) : out[i] = "does not exist"

\* the end of a second run after a first one that issued the delete of the
\* network, with ec2 requested
C9_Witness ==
    /\ past # <<>>
    /\ past[1].result.ret = "True"
    /\ past[1].calls[Len(past[1].calls)].op = "delete_vpc"
    /\ Ec2Requested
    /\ pc = "exit"

\* the same without services
C9_WitnessNoServices ==
    /\ past # <<>>
    /\ past[1].result.ret = "True"
    /\ services = <<>>
    /\ pc = "exit"

\* the network has nothing but its default security group, its default ACL
\* and its main route table with its local route
Bare(st) ==
    /\ vpc_exists(st)
    /\ st.subnets = <<>> /\ st.instances = <<>> /\ InVpc(st.nat) = <<>>
    /\ TgwCalls(st) = <<>> /\ PeeringCalls(st) = <<>>
    /\ st.endpoints = <<>> /\ InVpc(st.enis) = <<>> /\ st.igws = <<>>
    /\ Ids(st.acls) = {"acl-default"} /\ Ids(st.sgs) = {"sg-default"}
    /\ st.rts = RtList(Defaults)

\* C10: for a network with no dependent resources, the only delete call of
\* the run is one delete of the network: every block finds nothing to delete
\* and is passed, the ENI wait is left at its first test, and a run that no
\* provider error ends reports the network destroyed.
C10_BareNetwork ==
    Bare(start) =>
        /\ \A i \in CallIndex : calls[i].op \in DeleteOps => calls[i] = VpcCalls[1]
        /\ Cardinality({i \in CallIndex : calls[i].op \in DeleteOps}) <= 1
        /\ now = 0
        /\ (pc = "exit" /\ result.error = "") =>
              /\ Destroyed
              /\ calls = DhcpCalls \o VpcCalls
              /\ \E i \in 1..Len(out) : out[i] = "no ENIs remaining"

\* a bare network destroyed
C10_Witness ==
    /\ Bare(start)
    /\ Destroyed
    /\ calls[Len(calls)] = VpcCalls[1]

----------------------------------------------------------------------------
\* the line m was written
Logged(m) == \E i \in 1..Len(out) : out[i] = m

\* the polls of the ENI wait that found interfaces (line 168 is logged once
\* for each)
Polls == Cardinality({i \in 1..Len(out) : out[i] = "waiting on ENIs to delete"})

\* the ENI wait was left by its break (lines 162-165)
Converged == Logged("no ENIs remaining") /\ ~reached_timeout

\* the run is in a block of delete_vpc that follows the ENI wait
LeftWait ==
    \E i, j \in 1..Len(PlanOrder) :
        PlanOrder[i] = "eni_wait" /\ PlanOrder[j] = pc /\ i < j

\* C11: when the interfaces never go away, the ENI wait is left as timed out
\* at exactly 300 seconds and never blocks longer: no sleep and no call of
\* the wait runs past the deadline.
C11_TimeoutAtCeiling ==
    /\ now <= ENI_TIMEOUT
    /\ Logged("ENI deletion timed out") => now = ENI_TIMEOUT

\* C12: an ENI wait whose first poll finds no interface converges at once,
\* with no detach or delete call and no sleep; one that finds the list empty
\* after k polls that found interfaces has issued at most k batches (no
\* interface was deleted more than k times), and with k <= 3 it is left as
\* converged, not as timed out.
C12_Convergence ==
    /\ (Converged /\ Polls = 0) =>
          /\ now = 0
          /\ \A i \in CallIndex : calls[i].line \notin {175, 177}
    /\ \A n \in 1..Len(EniU) :
          Cardinality({i \in CallIndex :
              calls[i] = Call(177, "delete_network_interface", <<EniU[n].id>>)}) <= Polls
    /\ Cardinality({i \in CallIndex : calls[i].line = 177}) * ENI_SLEEP
          + Polls * POLL_SLEEP >= now
    /\ (LeftWait /\ Polls <= 3) => Converged

\* a wait that converged at its third poll, after two batches on an
\* interface the provider let go of late
C12_Witness ==
    /\ Converged
    /\ Polls = 2
    /\ Cardinality({i \in CallIndex : calls[i].line = 177}) = 2
    /\ LeftWait

\* C13: a timeout of the ENI wait is logged and does not end the run: the
\* run goes on with the subnets and the later blocks, and when no provider
\* call is rejected it ends with the delete of the network and reports the
\* network destroyed.
C13_TimeoutNotFatal ==
    /\ (reached_timeout /\ LeftWait) => Logged("ENI deletion timed out")
    /\ (reached_timeout /\ pc = "exit" /\ result.error = "") =>
          /\ Logged("ENI deletion timed out")
          /\ Destroyed
          /\ calls[Len(calls)] = VpcCalls[1]
          /\ \E i \in CallIndex : calls[i].line \in {185, 186}

\* a run whose wait timed out with an interface left, which then deleted
\* the subnet and the network
C13_Witness ==
    /\ Logged("ENI deletion timed out")
    /\ Destroyed
    /\ \E i \in CallIndex : calls[i].line = 186
    /\ calls[Len(calls)] = VpcCalls[1]
    /\ InVpc(aws.enis) # <<>>

----------------------------------------------------------------------------
\* C14: a delete, detach or disassociate call that the provider answers
\* with not-found counts as done: it does not end the run and the run is
\* not reported as failed.
C14_NotFoundIsSuccess ==
    result.error = "NotFound" => (pc # "exit" /\ result.exit # 1)

\* C15: a provider error other than not-found ends the run where it is
\* raised: nothing more is executed (no call of a later block, the delete of
\* the network included), the exit status is 1 and the network is not
\* reported destroyed.
C15_ErrorEndsRun ==
    result.error = "Error" =>
        /\ pc = "exit"
        /\ ~ENABLED Next
        /\ result.exit = 1
        /\ result.ret # "True"
        /\ ~Logged("destroyed")

\* the delete of a subnet was rejected with the network still there
C15_Witness ==
    /\ result.error = "Error"
    /\ calls # <<>>
    /\ calls[Len(calls)].line = 186
    /\ VPC \in aws.vpcs
    /\ ~Logged("destroyed")

\* C16: the exit status is 0 exactly when the run destroyed the network or
\* found it absent already (with valid credentials); it is not 0 when the
\* credentials are invalid, when the guard refused for running instances or
\* when a block failed.
C16_ExitCodes ==
    pc = "exit" =>
        (result.exit = 0 <=>
            \/ result.ret = "True"
            \/ start.creds /\ VPC \notin start.vpcs)

\* C17: with invalid credentials, and with or without services, the run is
\* ended as one with invalid credentials (logged, exit status 1) before any
\* call is issued, and the network is never reported as non-existent.
C17_CredentialsFirst ==
    ~start.creds =>
        /\ calls = <<>>
        /\ ~Logged("does not exist")
        /\ pc = "exit" => (Logged("credentials invalid") /\ result.exit = 1)

\* the dependent collections of the network are empty in the provider
NoDependents(st) == Bare([st EXCEPT !.vpcs = @ \cup {VPC}, !.creds = TRUE])

\* C18: the delete of the network is issued only when every dependent
\* collection of the network is empty; in particular not with interfaces
\* left after a timeout of the ENI wait.
C18_DeleteOnlyWhenEmpty ==
    (calls # <<>> /\ calls[Len(calls)].op = "delete_vpc") => NoDependents(aws)

\* the route table the association a belongs to
TableOf(a) ==
    LET k == CHOOSE n \in 1..Len(AssocU) : AssocU[n].id = a IN AssocU[k].rt

\* the accepted call c removed what the call d names
Removes(c, d) ==
    \/ /\ c.op \in {"delete_route", "disassociate_route_table", "delete_route_table"}
       /\ d = [c EXCEPT !.line = d.line]
    \/ /\ c.op = "delete_route_table"
       /\ d.op = "delete_route"
       /\ d.args[1] = c.args[1]
    \/ /\ c.op = "delete_route_table"
       /\ d.op = "disassociate_route_table"
       /\ TableOf(d.args[1]) = c.args[1]

\* C19: no call acts on a stale listing: a route, association or route
\* table that an earlier call of the run removed is not named by a later
\* call, which a listing read after that earlier call would not show.
C19_NoStaleListing ==
    \A i, j \in CallIndex : i < j => ~Removes(calls[i], calls[j])

----------------------------------------------------------------------------
\* a variant of the run: the statements left to execute, counting the turns
\* of the services loop by the names left and the turns of the ENI wait by
\* the seconds left to the deadline
RunRank ==
    LET names == Len(Split(services)) + 1 - svc
        step == IF InPlan
                THEN CHOOSE i \in 1..Len(PlanOrder) : PlanOrder[i] = pc
                ELSE 0
        wait == CHOOSE i \in 1..Len(PlanOrder) : PlanOrder[i] = "eni_wait"
    IN  CASE pc = "main" -> 3000
          [] pc = "services" -> 2000 + 10 * names + 4
          [] pc = "ec2_credentials" -> 2000 + 10 * names + 3
          [] pc = "ec2_exists" -> 2000 + 10 * names + 2
          [] pc = "ec2_eips" -> 2000 + 10 * names + 1
          [] pc = "ec2_terminate" -> 2000 + 10 * names
          [] pc = "call_delete_vpc" -> 1900
          [] pc = "dv_exists" -> 1890
          [] pc = "dv_guard" -> 1880
          [] pc = "eni_wait" ->
                1000 + (IF now < ENI_TIMEOUT THEN ENI_TIMEOUT - now + 1 ELSE 1)
          [] InPlan /\ step < wait -> 1800 - 10 * step
          [] InPlan /\ step > wait -> 1000 - 10 * step
          [] pc = "report" -> 10
          [] pc = "exit" -> 0

\* the variant over the runs of a behaviour
Rank == (MaxRuns - Len(past)) * 4000 + RunRank

\* the run ended with one of its outcomes: destroyed, absent, refused or
\* failed
Outcome ==
    \/ Destroyed
    \/ Logged("does not exist")
    \/ Logged("running instances exist")
    \/ result.exit = 1

\* C20: every run terminates with an outcome (destroyed, absent, refused or
\* failed): a run that has not ended can take a step, every step lowers a
\* variant that is never negative, and the ENI wait is always left, by
\* convergence or by timeout.
C20_Terminates ==
    /\ [](/\ pc # "exit" => ENABLED Next
          /\ pc = "exit" => Outcome
          /\ LeftWait => (Converged \/ Logged("ENI deletion timed out")))
    /\ [][Rank' < Rank /\ Rank' >= 0]_vars

\* a run that ended after its ENI wait was left by timeout and a later
\* call was rejected
C20_Witness ==
    /\ pc = "exit"
    /\ Logged("ENI deletion timed out")
    /\ result.error = "Error"
    /\ now >= ENI_TIMEOUT

----------------------------------------------------------------------------
\* the lines written that name the resource of the call c
Naming(c) == {k \in 1..Len(out) : out[k] = c.args[1]}

\* the i-th call of the run returned without an error
Returned(i) == i < Len(calls) \/ result.error = ""

\* C21: every delete call is bracketed by log entries naming the resource:
\* one is written before the call is issued and another after it returns,
\* for every kind of resource.
C21_AuditBracket ==
    \A i \in CallIndex :
        calls[i].op \in DeleteOps =>
            /\ Naming(calls[i]) # {}
            /\ Returned(i) => Cardinality(Naming(calls[i])) >= 2

\* C22: the ENI wait is reported as timed out only with interfaces left:
\* when the loop is left by its condition with no interface listed for the
\* network any more, the wait counts as converged.
C22_TimedOutOnlyIfLeft ==
    (pc = AfterTimeout /\ Logged("ENI deletion timed out")) =>
        InVpc(aws.enis) # <<>>

----------------------------------------------------------------------------
\* the interface with the id a, as the provider lists it
Eni(a) == EniU[CHOOSE n \in 1..Len(EniU) : EniU[n].id = a]

\* the calls a step added to the run
NewCalls == SubSeq(calls', Len(calls) + 1, Len(calls'))

\* a step that is one whole turn of the ENI wait with its batch
WholeTurn == pc = "eni_wait" /\ pc' = "eni_wait"

\* the interfaces the second listing of a whole turn showed: the ones the
\* provider had when the turn began, less the ones it let go of by itself
\* (the interfaces that are gone though they stay listed after a delete)
Remaining ==
    {a \in Ids(InVpc(aws.enis)) : ~Eni(a).sticky \/ a \in Ids(aws'.enis)}

\* C23: in a turn of the ENI wait that finds interfaces, every interface
\* listed receives its corrective action, a forced detach if and only if it
\* is attached and then a delete, with no other call in the batch; the 30
\* seconds are slept once, after the whole batch, and then the loop lists
\* again.
C23_CorrectiveBatch ==
    /\ [](\A i \in CallIndex :
            /\ calls[i].line = 175 =>
                  /\ Eni(calls[i].args[1]).attached
                  /\ i < Len(calls) =>
                        calls[i + 1] = Call(177, "delete_network_interface", calls[i].args)
            /\ (calls[i].line = 177 /\ Eni(calls[i].args[1]).attached) =>
                  /\ i > 1
                  /\ calls[i - 1] = Call(175, "detach_network_interface", calls[i].args))
    /\ [][WholeTurn =>
            /\ \A a \in Remaining :
                  Cardinality({j \in 1..Len(NewCalls) :
                      NewCalls[j] = Call(177, "delete_network_interface", <<a>>)}) = 1
            /\ \A j \in 1..Len(NewCalls) :
                  NewCalls[j].line \in {175, 177} /\ NewCalls[j].args[1] \in Remaining
            /\ Len(NewCalls) =
                  Cardinality(Remaining) + Cardinality({a \in Remaining : Eni(a).attached})
            /\ now' = now + ENI_SLEEP * Cardinality(Remaining) + POLL_SLEEP
            /\ Polls' = Polls + 1]_vars

\* after one turn on an attached interface and one that is not: a detach
\* and a delete for the first, a delete for the second, 50 seconds slept
C23_Witness ==
    /\ pc = "eni_wait"
    /\ Polls = 1
    /\ now = 2 * ENI_SLEEP + POLL_SLEEP
    /\ \E i \in 1..(Len(calls) - 2) :
          /\ calls[i] = Call(175, "detach_network_interface", <<"eni-1">>)
          /\ calls[i + 1] = Call(177, "delete_network_interface", <<"eni-1">>)
          /\ calls[i + 2] = Call(177, "delete_network_interface", <<"eni-2">>)
          /\ i + 2 = Len(calls)

----------------------------------------------------------------------------
\* the interfaces the provider lists for the subnet s
EnisOf(st, s) ==
    {st.enis[n].id : n \in {m \in 1..Len(st.enis) : st.enis[m].subnet = s}}

\* a step that is the whole block of the subnets
SubnetsDone == pc = "subnets" /\ pc' = After("subnets")

\* C24: in the block of the subnets, every interface still listed for a
\* subnet receives its delete call before the delete call of that subnet,
\* and every subnet of the network receives exactly one delete call.
C24_EniBeforeSubnet ==
    /\ [](\A i, j \in CallIndex :
            /\ (calls[i].line = 186 /\ calls[j] = calls[i]) => i = j
            /\ (calls[i].line = 186 /\ calls[j].line = 185
                  /\ Eni(calls[j].args[1]).subnet = calls[i].args[1]) => j < i)
    /\ [][SubnetsDone =>
            /\ \A k \in 1..Len(NewCalls) : NewCalls[k].line \in {185, 186}
            /\ \A s \in Ids(InVpc(aws.subnets)) :
                  /\ Cardinality({j \in 1..Len(NewCalls) :
                        NewCalls[j] = Call(186, "delete_subnet", <<s>>)}) = 1
                  /\ \A a \in EnisOf(aws, s) :
                        \E i, j \in 1..Len(NewCalls) :
                            /\ i < j
                            /\ NewCalls[i] = Call(185, "delete_network_interface", <<a>>)
                            /\ NewCalls[j] = Call(186, "delete_subnet", <<s>>)
            /\ Cardinality({j \in 1..Len(NewCalls) : NewCalls[j].line = 186})
                  = Len(InVpc(aws.subnets))]_vars

\* past the block of the subnets, an interface left by the ENI wait having
\* been deleted before its subnet, and a second subnet deleted too
C24_Witness ==
    /\ pc = After("subnets")
    /\ \E i \in 1..(Len(calls) - 2) :
          /\ calls[i] = Call(185, "delete_network_interface", <<"eni-1">>)
          /\ calls[i + 1] = Call(186, "delete_subnet", <<"subnet-1">>)
          /\ calls[i + 2] = Call(186, "delete_subnet", <<"subnet-2">>)
          /\ i + 2 = Len(calls)

----------------------------------------------------------------------------
\* the Elastic IP with the allocation id a
Address(a) == AddressU[CHOOSE n \in 1..Len(AddressU) : AddressU[n].id = a]

\* the Elastic IPs the network had on its instances when the run started
EipsOfNetwork ==
    {start.addresses[n].id : n \in {m \in 1..Len(start.addresses) :
        start.addresses[m].instance \in Ids(InVpc(start.instances))}}

\* C25: with the ec2 service requested, the release call of an Elastic IP
\* follows the disassociate call of its association, and every Elastic IP
\* call precedes the terminate call: when instances are terminated, every
\* Elastic IP the network had on an instance has been disassociated and
\* released.
C25_EipOrder ==
    \A i \in CallIndex :
        /\ calls[i].op = "release_address" =>
              /\ i > 1
              /\ calls[i - 1] =
                    Call(49, "disassociate_address", <<Address(calls[i].args[1]).assoc>>)
        /\ calls[i].op = "disassociate_address" =>
              (i < Len(calls) => calls[i + 1].op = "release_address")
        /\ calls[i].op = "terminate_instances" =>
              /\ \A j \in CallIndex :
                    calls[j].op \in {"disassociate_address", "release_address"} => j < i
              /\ \A a \in EipsOfNetwork :
                    \E j \in 1..(i - 1) : calls[j] = Call(50, "release_address", <<a>>)

\* the Elastic IP of a running instance disassociated and released, and
\* then the instance terminated
C25_Witness ==
    /\ Ec2Requested
    /\ EipsOfNetwork = {"eipalloc-1"}
    /\ Len(calls) >= 3
    /\ calls[1] = Call(49, "disassociate_address", <<"eipassoc-1">>)
    /\ calls[2] = Call(50, "release_address", <<"eipalloc-1">>)
    /\ calls[3] = Call(68, "terminate_instances", <<"i-1">>)

----------------------------------------------------------------------------
\* C26: an internet gateway of the network is detached from it and then
\* deleted, the delete call directly after the detach call; both follow
\* every call of the second pass over the NAT gateways and precede every
\* delete call of a security group, and past their block every gateway the
\* network had has received both.
C26_IgwOrder ==
    /\ \A i \in CallIndex :
          /\ calls[i].op = "delete_internet_gateway" =>
                /\ i > 1
                /\ calls[i - 1] =
                      Call(224, "detach_internet_gateway", <<calls[i].args[1], VPC>>)
          /\ calls[i].op = "detach_internet_gateway" =>
                (i < Len(calls) =>
                    calls[i + 1] = Call(225, "delete_internet_gateway", <<calls[i].args[1]>>))
          /\ calls[i].op \in {"detach_internet_gateway", "delete_internet_gateway"} =>
                /\ pc \notin {"nat2", "orphans", "routes", "subnets"}
                /\ \A j \in CallIndex :
                      /\ calls[j].op = "delete_nat_gateway" => j < i
                      /\ calls[j].op = "delete_security_group" => i < j
    /\ pc \in {"sgs", "vpc"} =>
          \A g \in Ids(InVpc(start.igws)) :
              \E i \in CallIndex : calls[i] = Call(225, "delete_internet_gateway", <<g>>)

\* a NAT gateway deleted again in the second pass, then the internet
\* gateway detached and deleted, then the custom security group deleted
C26_Witness ==
    \E i \in 1..(Len(calls) - 3) :
        /\ calls[i] = Call(220, "delete_nat_gateway", <<"nat-1">>)
        /\ calls[i + 1] = Call(224, "detach_internet_gateway", <<"igw-1", VPC>>)
        /\ calls[i + 2] = Call(225, "delete_internet_gateway", <<"igw-1">>)
        /\ calls[i + 3] = Call(230, "delete_security_group", <<"sg-1">>)

----------------------------------------------------------------------------
\* the resource of the list U with the id a
Rec(U, a) == U[CHOOSE n \in 1..Len(U) : U[n].id = a]

\* the resource the call c names belongs to the network
InNetwork(c) ==
    LET a == c.args[1] IN
    CASE c.op = "disassociate_address" ->
            \E n \in 1..Len(AddressU) :
                /\ AddressU[n].assoc = a
                /\ AddressU[n].instance \in Ids(InVpc(InstanceU))
      [] c.op = "release_address" -> Address(a).instance \in Ids(InVpc(InstanceU))
      [] c.op = "terminate_instances" ->
            \A k \in 1..Len(c.args) : c.args[k] \in Ids(InVpc(InstanceU))
      [] c.op = "delete_transit_gateway_vpc_attachment" -> Rec(TgwU, a).resource = VPC
      [] c.op = "delete_nat_gateway" -> Rec(NatU, a).vpc = VPC
      [] c.op = "associate_dhcp_options" -> c.args[2] = VPC
      [] c.op = "delete_vpc_peering_connection" ->
            Rec(PeeringU, a).accepter = VPC \/ Rec(PeeringU, a).requester = VPC
      [] c.op = "delete_vpc_endpoints" -> Rec(EndpointU, a).vpc = VPC
      [] c.op = "delete_network_acl" -> Rec(AclU, a).vpc = VPC
      [] c.op \in {"detach_network_interface", "delete_network_interface"} ->
            Eni(a).vpc = VPC
      [] c.op = "delete_subnet" -> Rec(SubnetU, a).vpc = VPC
      [] c.op \in {"delete_route", "delete_route_table"} -> Rec(RtU, a).vpc = VPC
      [] c.op = "disassociate_route_table" -> Rec(RtU, TableOf(a)).vpc = VPC
      [] c.op = "detach_internet_gateway" -> Rec(IgwU, a).vpc = VPC /\ c.args[2] = VPC
      [] c.op = "delete_internet_gateway" -> Rec(IgwU, a).vpc = VPC
      [] c.op = "delete_security_group" -> Rec(SgU, a).vpc = VPC
      [] c.op = "delete_vpc" -> a = VPC

\* what the provider holds for other networks
Others(st) ==
    LET Kept(list) == SelectSeq(list, LAMBDA r : r.id \in Foreign) IN
    [vpcs |-> st.vpcs \ {VPC}, addresses |-> Kept(st.addresses), tgw |-> Kept(st.tgw),
     nat |-> Kept(st.nat), peerings |-> Kept(st.peerings), enis |-> Kept(st.enis)]

\* C27: every call of a run names a resource of the network (an attachment
\* whose resource is the network, a peering the network accepted or
\* requested, a resource listed for the network), and what the provider
\* holds for other networks is left as it was.
C27_Frame ==
    /\ \A i \in CallIndex : InNetwork(calls[i])
    /\ Others(aws) = Others(start)

\* a network destroyed with its attachment deleted, in an account that has
\* an attachment and a peering of other networks, both still there
C27_Witness ==
    /\ Destroyed
    /\ \E i \in CallIndex :
          calls[i] = Call(119, "delete_transit_gateway_vpc_attachment", <<"tgw-attach-1">>)
    /\ "tgw-attach-9" \in Ids(aws.tgw)
    /\ "pcx-9" \in Ids(aws.peerings)

----------------------------------------------------------------------------
\* C28: delete_vpc returns True, and the run prints that the network was
\* destroyed, exactly when the delete call of the network was issued and
\* returned without an error; when the network is absent or the guard
\* refuses, delete_vpc returns False without having issued a call and the
\* run prints that it was unable to destroy the network.
C28_ReturnValue ==
    /\ result.ret = "True" <=>
          /\ calls # <<>>
          /\ calls[Len(calls)] = VpcCalls[1]
          /\ Returned(Len(calls))
    /\ Logged("destroyed") <=> (result.ret = "True" /\ pc = "exit")
    /\ Logged("unable to destroy") <=> (result.ret = "False" /\ pc = "exit")
    /\ result.ret = "False" =>
          /\ ~vpc_exists(aws) \/ GuardRefuses(aws)
          /\ Logged("does not exist") \/ Logged("running instances exist")
          /\ \A i \in CallIndex : calls[i].line < 92

\* a first run printed that it destroyed the network, and the run after it
\* found the network absent and printed that it was unable to destroy it
C28_Witness ==
    /\ past # <<>>
    /\ past[1].result.ret = "True"
    /\ \E k \in 1..Len(past[1].out) : past[1].out[k] = "destroyed"
    /\ past[1].calls[Len(past[1].calls)] = VpcCalls[1]
    /\ pc = "exit"
    /\ result.ret = "False"
    /\ Logged("unable to destroy")
    /\ calls = <<>>

----------------------------------------------------------------------------
\* the instances of the network that were not running when the run started
NotRunning ==
    {start.instances[n].id : n \in {m \in 1..Len(start.instances) :
        start.instances[m].vpc = VPC /\ start.instances[m].state # "running"}}

\* C29: only running instances count for the guard and for the termination:
\* an instance of the network in another state never makes the guard
\* refuse and never is in a terminate call, with the ec2 service requested
\* or not, and it is still there while the run goes through the ENI wait,
\* the subnets and the blocks after them.
C29_OnlyRunning ==
    /\ \A i \in CallIndex :
          calls[i].op = "terminate_instances" =>
              \A k \in 1..Len(calls[i].args) :
                  Rec(InstanceU, calls[i].args[k]).state = "running"
    /\ NotRunning \subseteq Ids(aws.instances)
    /\ RunningInstances(start) = <<>> => ~Logged("running instances exist")
    /\ (RunningInstances(aws) = <<>> /\ NotRunning # {} /\ result.error = ""
          /\ vpc_exists(start)) =>
          pc \notin {"report", "exit"} \/ result.ret = "True"

\* with ec2 requested, the running instance was terminated and the stopped
\* one is still there when the subnet has received its delete call
C29_Witness ==
    /\ Ec2Requested
    /\ NotRunning = {"i-3"}
    /\ \E i \in CallIndex : calls[i] = Call(68, "terminate_instances", <<"i-1">>)
    /\ \E i \in CallIndex : calls[i] = Call(186, "delete_subnet", <<"subnet-1">>)
    /\ "i-3" \in Ids(aws.instances)
    /\ pc = After("subnets")

----------------------------------------------------------------------------
\* how many times the line m was written
Count(m) == Cardinality({k \in 1..Len(out) : out[k] = m})

\* the names of --services for which line 80 is reached when no ClientError
\* ends the run: the ones not implemented, and ec2 when its handler is left
\* by the KeyError of line 49
Unhandled ==
    {n \in 1..Len(Split(services)) :
        \/ ~Implemented(Split(services)[n])
        \/ start.creds /\ vpc_exists(start) /\ EipRaises(start)}

\* C30: a name of --services that is not implemented, and a KeyError
\* raised inside the handler of ec2, are logged as not implemented and
\* nothing more: the loop goes on with the names left, every such name is
\* logged once, and delete_vpc is called afterwards.
C30_NotImplemented ==
    /\ (services # <<>> /\ Logged("calling delete_vpc")) =>
          Count("not implemented") = Cardinality(Unhandled)
    /\ Count("not implemented") <= Cardinality(Unhandled)
    /\ (pc = "exit" /\ result.error = "" /\ ~Logged("credentials invalid")) =>
          Logged("calling delete_vpc")

\* after a name that is not implemented and an ec2 handler left by a
\* KeyError, both logged, delete_vpc was called and the run ended
C30_Witness ==
    /\ services = <<"rds", ",", "ec2">>
    /\ EipRaises(start)
    /\ Count("not implemented") = 2
    /\ Logged("calling delete_vpc")
    /\ pc = "exit"

====
